---- MODULE Spec2Model ----
(***************************************************************************)
(* Model of etl/etl.py: the Citi Bike monthly ETL.                         *)
(*                                                                         *)
(*   Spec           run(): the month loop, the two output writes           *)
(*   SpecNormalize  read_trips_from_zip applied to bounded archives        *)
(*   SpecTop5       top5 applied to bounded grouped-count tables           *)
(*                                                                         *)
(* Strings of the program are TLA+ strings, except the month keys, which   *)
(* are sequences of character codes so that Python's string ordering       *)
(* (sorted) is computed and not assumed.  A missing cell is NaN, a         *)
(* timestamp that did not parse is NaT.                                    *)
(***************************************************************************)
EXTENDS Integers, Sequences, FiniteSets, TLC

VARIABLES pc, m, month_data, existing_months, last, ingested,
          totals_file, top_file, err,
          nz_pc, nz_in, nz_out,
          t5_pc, t5_in, t5_out

vars == <<pc, m, month_data, existing_months, last, ingested,
          totals_file, top_file, err,
          nz_pc, nz_in, nz_out, t5_pc, t5_in, t5_out>>

(* ---------------- bounds ---------------- *)
\* at most this many months are ingested in one run of the model
MaxIngested == 2
\* rows of a table drawn for the normalizer
MaxRows == 2
\* groups of a grouped-count table drawn for top5
MaxGroups == 6
\* largest trip count of a drawn group
MaxTrips == 3

(* ---------------- program constants ---------------- *)
YEAR == 2025
NumMonths == 12
TopN == 5

NaN == "NaN"
NaT == [nat |-> TRUE]
Timestamp(y, mo, d) == [nat |-> FALSE, year |-> y, month |-> mo, day |-> d]

usecols == {"started_at", "ended_at", "start_station_id", "start_station_name",
            "end_station_id", "end_station_name", "member_casual"}

(* ---------------- string helpers ---------------- *)
\* str.lower() on the strings that occur in the model
Lower(s) ==
    CASE s = "Casual"        -> "casual"
      [] s = "CASUAL"        -> "casual"
      [] s = "Member"        -> "member"
      [] s = "Subscriber"    -> "subscriber"
      [] s = "Customer"      -> "customer"
      [] s = "Dependent"     -> "dependent"
      [] s = "Member_Casual" -> "member_casual"
      [] s = "Started_At"    -> "started_at"
      [] s = "TRIPS.CSV"     -> "trips.csv"
      [] s = "README.txt"    -> "readme.txt"
      [] s = "JC-202501-citibike-tripdata.csv" -> "jc-202501-citibike-tripdata.csv"
      [] OTHER               -> s

\* str.strip() on the strings that occur in the model
Strip(s) ==
    CASE s = " started_at" -> "started_at"
      [] OTHER             -> s

\* n.lower().endswith(".csv")
EndsWithCsv(n) == Lower(n) \in {"trips.csv", "jc-202501-citibike-tripdata.csv"}

\* Series.str.lower(): a missing value stays missing
str_lower(v) == IF v = NaN THEN NaN ELSE Lower(v)

\* pd.to_datetime(..., errors="coerce", utc=True) on one cell
to_datetime(v) ==
    CASE v = "2025-03-01 08:15:00" -> Timestamp(2025, 3, 1)
      [] v = "2025-01-15 17:40:00" -> Timestamp(2025, 1, 15)
      [] v = "2024-12-31 23:50:00" -> Timestamp(2024, 12, 31)
      [] OTHER                     -> NaT

\* .dt.year == YEAR on one cell: the year of NaT is NaN, which equals nothing
year_is(ts, y) == IF ts.nat THEN FALSE ELSE ts.year = y

\* Series.map({"subscriber":"member","customer":"casual"}): unmapped is NaN
usertype_map(v) ==
    CASE v = "subscriber" -> "member"
      [] v = "customer"   -> "casual"
      [] OTHER            -> NaN

(* ---------------- read_trips_from_zip ---------------- *)
BadZip == [bad |-> TRUE, members |-> <<>>]

csv_names(z) == SelectSeq(z.members, LAMBDA e : EndsWithCsv(e.name))

\* pd.read_csv(..., usecols=lambda c: c in usecols), then the labels
\* stripped and lowercased; when usecols selects no column the frame has
\* no column and no row
read_csv(t) ==
    LET kept == {c \in t.cols : c \in usecols}
        lab(c) == Lower(Strip(c))
        newcols == {lab(c) : c \in kept}
        src(c2) == CHOOSE c \in kept : lab(c) = c2
    IN IF kept = {} THEN [cols |-> {}, rows |-> <<>>]
       ELSE [cols |-> newcols,
             rows |-> [i \in 1..Len(t.rows) |-> [c2 \in newcols |-> t.rows[i][src(c2)]]]]

\* the parsed date columns
parse_dates(df) ==
    [cols |-> df.cols,
     rows |-> [i \in 1..Len(df.rows) |->
                [c \in df.cols |->
                    IF c \in {"started_at", "ended_at"}
                    THEN to_datetime(df.rows[i][c])
                    ELSE df.rows[i][c]]]]

\* the rider type column
clean_rider_type(df) ==
    LET val(r) == IF "member_casual" \in df.cols
                  THEN str_lower(r["member_casual"])
                  ELSE IF "usertype" \in df.cols
                       THEN usertype_map(str_lower(r["usertype"]))
                       ELSE "unknown"
        newcols == df.cols \cup {"member_casual"}
    IN [cols |-> newcols,
        rows |-> [i \in 1..Len(df.rows) |->
                    [c \in newcols |-> IF c = "member_casual"
                                       THEN val(df.rows[i])
                                       ELSE df.rows[i][c]]]]

\* a plausible slip: rows without a start time survive the year filter
keep_year_lenient(df) ==
    IF "started_at" \in df.cols
    THEN [cols |-> df.cols,
          rows |-> SelectSeq(df.rows,
                     LAMBDA r : r["started_at"].nat \/ year_is(r["started_at"], YEAR))]
    ELSE df

\* df[df["started_at"].dt.year == YEAR]
keep_year(df) ==
    IF "started_at" \in df.cols
    THEN [cols |-> df.cols,
          rows |-> SelectSeq(df.rows, LAMBDA r : year_is(r["started_at"], YEAR))]
    ELSE df

read_trips_from_zip(z) ==
    IF z.bad THEN [ok |-> FALSE, exc |-> "BadZipFile"]
    ELSE IF csv_names(z) = <<>> THEN [ok |-> FALSE, exc |-> "ValueError"]
    ELSE [ok |-> TRUE,
          df |-> keep_year(clean_rider_type(parse_dates(read_csv(csv_names(z)[1].table))))]

(* ---------------- safe_name, top5 ---------------- *)
safe_name(s) == IF s = NaN THEN "Unknown" ELSE s

\* index of the first row with the largest trips
FirstMax(tbl) ==
    CHOOSE i \in 1..Len(tbl) :
        /\ \A j \in 1..Len(tbl) : tbl[j].trips <= tbl[i].trips
        /\ \A j \in 1..(i-1) : tbl[j].trips < tbl[i].trips

RemoveAt(tbl, i) == SubSeq(tbl, 1, i-1) \o SubSeq(tbl, i+1, Len(tbl))

\* a plausible slip: the first n rows, not the n largest
nlargest_head(n, tbl) == SubSeq(tbl, 1, IF Len(tbl) < n THEN Len(tbl) ELSE n)

\* DataFrame.nlargest(n, "trips"), keep="first"
RECURSIVE nlargest(_, _)
nlargest(n, tbl) ==
    IF n = 0 \/ tbl = <<>> THEN <<>>
    ELSE LET i == FirstMax(tbl)
         IN <<tbl[i]>> \o nlargest(n-1, RemoveAt(tbl, i))

top5(grouped_counts) ==
    LET nl == nlargest(TopN, grouped_counts)
    IN [i \in 1..Len(nl) |->
          [station_id   |-> safe_name(nl[i].station_id),
           station_name |-> safe_name(nl[i].station_name),
           trips        |-> nl[i].trips]]

(* ---------------- groupby(...).size() ---------------- *)
\* the strings of the model in Python's string order; NaN sorts last
Vocabulary == <<"Grove St PATH", "HB101", "HB102", "HB103", "Hoboken Terminal",
                "JC009", "JC013", "JC014", "JC018", "JC020", "JC022", "JC024",
                "Newport PATH">>

StrRank(s) == IF s = NaN THEN Len(Vocabulary) + 1
              ELSE CHOOSE i \in 1..Len(Vocabulary) : Vocabulary[i] = s

PairLess(a, b) ==
    \/ StrRank(a[1]) < StrRank(b[1])
    \/ StrRank(a[1]) = StrRank(b[1]) /\ StrRank(a[2]) < StrRank(b[2])

RECURSIVE SortPairs(_)
SortPairs(S) ==
    IF S = {} THEN <<>>
    ELSE LET mn == CHOOSE x \in S : \A y \in S \ {x} : PairLess(x, y)
         IN <<mn>> \o SortPairs(S \ {mn})

CountRows(rows, P(_)) == Len(SelectSeq(rows, P))

\* df.groupby([idcol, namecol], dropna=False).size().reset_index(name="trips")
\* with the two columns renamed; a missing column is a KeyError
groupby_size(df, idcol, namecol) ==
    IF ~({idcol, namecol} \subseteq df.cols)
    THEN [ok |-> FALSE, exc |-> "KeyError", tbl |-> <<>>]
    ELSE LET keys == {<<df.rows[i][idcol], df.rows[i][namecol]>> : i \in 1..Len(df.rows)}
             srt  == SortPairs(keys)
         IN [ok |-> TRUE, exc |-> "none",
             tbl |-> [i \in 1..Len(srt) |->
                        [station_id   |-> srt[i][1],
                         station_name |-> srt[i][2],
                         trips |-> CountRows(df.rows,
                                     LAMBDA r : r[idcol] = srt[i][1] /\ r[namecol] = srt[i][2])]]]

(* ---------------- month keys ---------------- *)
\* character codes
Ch0 == 48
ChDash == 45

\* f"{YEAR}-{m:02d}"
month_key(year, month) ==
    <<Ch0 + ((year \div 1000) % 10), Ch0 + ((year \div 100) % 10),
      Ch0 + ((year \div 10) % 10), Ch0 + (year % 10), ChDash,
      Ch0 + ((month \div 10) % 10), Ch0 + (month % 10)>>

\* Python's < on two strings
RECURSIVE StrLess(_, _)
StrLess(a, b) ==
    IF b = <<>> THEN FALSE
    ELSE IF a = <<>> THEN TRUE
    ELSE IF Head(a) # Head(b) THEN Head(a) < Head(b)
    ELSE StrLess(Tail(a), Tail(b))

RECURSIVE Insert(_, _)
Insert(k, srt) ==
    IF srt = <<>> THEN <<k>>
    ELSE IF StrLess(k, Head(srt)) THEN <<k>> \o srt
    ELSE <<Head(srt)>> \o Insert(k, Tail(srt))

Reverse(s) == [i \in 1..Len(s) |-> s[Len(s) + 1 - i]]

\* a plausible slip: descending order
RECURSIVE sorted_desc(_)
sorted_desc(keys) ==
    IF keys = <<>> THEN <<>>
    ELSE Reverse(Insert(keys[Len(keys)], Reverse(sorted_desc(SubSeq(keys, 1, Len(keys) - 1)))))

\* sorted(existing_months)
RECURSIVE sorted(_)
sorted(keys) ==
    IF keys = <<>> THEN <<>>
    ELSE Insert(keys[Len(keys)], sorted(SubSeq(keys, 1, Len(keys) - 1)))

(* ---------------- try_fetch_zip ---------------- *)
\* r.headers.get("Content-Type", "").lower().find("zip") != -1
HasZip(ctype) == ctype \in {"application/zip", "application/x-zip-compressed"}

\* requests.get raises on a transport failure; a 200 is accepted whatever
\* its content type; anything else is None
try_fetch_zip(resp) ==
    IF resp.exc # "none"
    THEN [raised |-> TRUE, exc |-> resp.exc, none |-> TRUE, content |-> BadZip]
    ELSE IF resp.status = 200 /\ HasZip(resp.ctype)
    THEN [raised |-> FALSE, exc |-> "none", none |-> FALSE, content |-> resp.body]
    ELSE IF resp.status = 200
    THEN [raised |-> FALSE, exc |-> "none", none |-> FALSE, content |-> resp.body]
    ELSE [raised |-> FALSE, exc |-> "none", none |-> TRUE, content |-> BadZip]

(* ---------------- the stages of run() after the loop ---------------- *)
\* len(df)
total_rides(df) == Len(df.rows)

monthly_rows(keys, md) ==
    LET srt == sorted(keys)
    IN [i \in 1..Len(srt) |-> [month |-> srt[i], rides |-> total_rides(md[srt[i]])]]

\* a plausible slip: the first key of the sorted list
earliest_month(keys) == sorted(keys)[1]

\* sorted(existing_months)[-1]
latest_month(keys) == sorted(keys)[Len(keys)]

\* df_latest["member_casual"].fillna("unknown").str.lower()
fill_rider(df) ==
    [cols |-> df.cols,
     rows |-> [i \in 1..Len(df.rows) |->
                [c \in df.cols |->
                   IF c = "member_casual"
                   THEN str_lower(IF df.rows[i][c] = NaN THEN "unknown" ELSE df.rows[i][c])
                   ELSE df.rows[i][c]]]]

\* df_latest[df_latest["member_casual"] == cat]
by_rider(df, cat) ==
    [cols |-> df.cols,
     rows |-> SelectSeq(df.rows, LAMBDA r : r["member_casual"] = cat)]

\* the four grouped counts and the report built from them
top_stations(keys, md) ==
    LET lm == latest_month(keys)
        df_latest == fill_rider(md[lm])
        df_casual == by_rider(df_latest, "casual")
        df_member == by_rider(df_latest, "member")
        starts_casual == groupby_size(df_casual, "start_station_id", "start_station_name")
        ends_casual   == groupby_size(df_casual, "end_station_id", "end_station_name")
        starts_member == groupby_size(df_member, "start_station_id", "start_station_name")
        ends_member   == groupby_size(df_member, "end_station_id", "end_station_name")
    IN IF ~(starts_casual.ok /\ ends_casual.ok /\ starts_member.ok /\ ends_member.ok)
       THEN [ok |-> FALSE, exc |-> "KeyError"]
       ELSE [ok |-> TRUE,
             result |-> [latest_month |-> lm,
                         top5 |-> [starts |-> [casual |-> top5(starts_casual.tbl),
                                               member |-> top5(starts_member.tbl)],
                                   ends   |-> [casual |-> top5(ends_casual.tbl),
                                               member |-> top5(ends_member.tbl)]]]]

(* ---------------- inputs ---------------- *)
T2025a == "2025-03-01 08:15:00"
T2025b == "2025-01-15 17:40:00"
T2024  == "2024-12-31 23:50:00"
TJunk  == "not a date"

Trip(st, en, sid, sname, eid, ename, rider) ==
    [ride_id |-> "R", started_at |-> st, ended_at |-> en,
     start_station_id |-> sid, start_station_name |-> sname,
     end_station_id |-> eid, end_station_name |-> ename, member_casual |-> rider]

\* the current schema, with a column the program does not read
TableModern ==
    [cols |-> usecols \cup {"ride_id"},
     rows |-> << Trip(T2025a, T2025a, "HB101", "Hoboken Terminal", "JC009", "Grove St PATH", "casual"),
                 Trip(T2025a, TJunk,  "HB101", "Hoboken Terminal", "JC009", "Grove St PATH", "Casual"),
                 Trip(T2025b, T2025b, "JC009", "Grove St PATH", "HB101", "Hoboken Terminal", "member"),
                 Trip(T2025b, T2025b, NaN, NaN, "HB101", "Hoboken Terminal", NaN),
                 Trip(T2024,  T2025b, "JC009", "Grove St PATH", "JC009", "Grove St PATH", "member"),
                 Trip(TJunk,  T2025b, "JC009", "Grove St PATH", "JC009", "Grove St PATH", "casual") >>]

\* a second month of the current schema
TableSmall ==
    [cols |-> usecols \cup {"ride_id"},
     rows |-> << Trip(T2025b, T2025b, "JC013", "Newport PATH", NaN, NaN, "member"),
                 Trip(T2025b, T2025b, "JC013", "Newport PATH", "JC013", "Newport PATH", "casual") >>]

\* no station columns
TableNoStations ==
    [cols |-> {"started_at", "member_casual"},
     rows |-> << [started_at |-> T2025a, member_casual |-> "casual"],
                 [started_at |-> T2025b, member_casual |-> "member"] >>]

\* every row of the previous year
TableStale ==
    [cols |-> usecols \cup {"ride_id"},
     rows |-> << Trip(T2024, T2024, "HB101", "Hoboken Terminal", "JC009", "Grove St PATH", "member") >>]

\* the legacy schema: usertype, labels of another capitalisation
TableLegacy ==
    [cols |-> {"Started_At", "start_station_id", "start_station_name",
               "end_station_id", "end_station_name", "usertype", "Member_Casual"},
     rows |-> << [Started_At |-> T2025a, start_station_id |-> "HB102",
                  start_station_name |-> "Hoboken Terminal", end_station_id |-> "HB102",
                  end_station_name |-> "Hoboken Terminal", usertype |-> "Subscriber",
                  Member_Casual |-> "member"] >>]

ZipOf(t) == [bad |-> FALSE,
             members |-> << [name |-> "README.txt", table |-> [cols |-> {}, rows |-> <<>>]],
                            [name |-> "JC-202501-citibike-tripdata.csv", table |-> t] >>]

NoCsvZip == [bad |-> FALSE,
             members |-> << [name |-> "README.txt", table |-> [cols |-> {}, rows |-> <<>>]] >>]

GoodTables == {TableModern, TableSmall, TableNoStations, TableStale, TableLegacy}

Zips == {BadZip, NoCsvZip} \cup {ZipOf(t) : t \in GoodTables}

Responses ==
    {[exc |-> e, status |-> 0, ctype |-> "", body |-> BadZip] : e \in {"Timeout", "ConnectionError"}}
    \cup {[exc |-> "none", status |-> st, ctype |-> "application/xml", body |-> BadZip] : st \in {403, 404}}
    \cup {[exc |-> "none", status |-> 200, ctype |-> ct, body |-> z] :
              ct \in {"application/zip", "application/octet-stream"}, z \in Zips}

(* ---------------- run() ---------------- *)
NoFile == [written |-> FALSE]
File(v) == [written |-> TRUE, value |-> v]

IdleNormalize == nz_pc = "off" /\ nz_in = BadZip /\ nz_out = [ok |-> FALSE, exc |-> "none"]
IdleTop5 == t5_pc = "off" /\ t5_in = <<>> /\ t5_out = <<>>
IdleRun ==
    /\ pc = "off" /\ m = 0 /\ month_data = <<>> /\ existing_months = <<>>
    /\ last = [month |-> 0, outcome |-> "none"] /\ ingested = {}
    /\ totals_file = NoFile /\ top_file = NoFile /\ err = "none"

\* run() is entered; nothing is created yet.  totals_file and top_file
\* record what this run writes, whatever an earlier run left on disk.
Init ==
    /\ pc = "start" /\ m = 0
    /\ month_data = <<>> /\ existing_months = <<>>
    /\ last = [month |-> 0, outcome |-> "none"] /\ ingested = {}
    /\ totals_file = NoFile /\ top_file = NoFile /\ err = "none"
    /\ IdleNormalize /\ IdleTop5

others == <<nz_pc, nz_in, nz_out, t5_pc, t5_in, t5_out>>

\* os.makedirs(OUT_DIR, exist_ok=True) succeeds; the loop starts at month 1
MakeDirs ==
    /\ pc = "start"
    /\ pc' = "loop" /\ m' = 1
    /\ UNCHANGED <<month_data, existing_months, last, ingested, totals_file, top_file, err, others>>

\* os.makedirs raises (docs is a regular file, the directory is read-only):
\* run() ends before any fetch
MakeDirsFails ==
    /\ pc = "start"
    /\ pc' = "failed" /\ err' = "OSError:makedirs"
    /\ UNCHANGED <<m, month_data, existing_months, last, ingested, totals_file, top_file, others>>

\* requests.get raises: nothing in run() catches it
FetchRaises ==
    /\ pc = "loop" /\ m <= NumMonths
    /\ \E resp \in Responses :
         LET z == try_fetch_zip(resp)
         IN /\ z.raised
            /\ pc' = "failed" /\ err' = z.exc
            /\ last' = [month |-> m, outcome |-> "raise"]
    /\ UNCHANGED <<m, month_data, existing_months, ingested, totals_file, top_file, others>>

\* z is None: "not found", continue
MonthNotFound ==
    /\ pc = "loop" /\ m <= NumMonths
    /\ \E resp \in Responses :
         LET z == try_fetch_zip(resp)
         IN /\ ~z.raised /\ z.none
            /\ m' = m + 1
            /\ last' = [month |-> m, outcome |-> "not_found"]
    /\ UNCHANGED <<pc, month_data, existing_months, ingested, totals_file, top_file, err, others>>

\* read_trips_from_zip raises: "error reading zip", continue
MonthUnreadable ==
    /\ pc = "loop" /\ m <= NumMonths
    /\ \E resp \in Responses :
         LET z == try_fetch_zip(resp)
         IN /\ ~z.raised /\ ~z.none
            /\ ~read_trips_from_zip(z.content).ok
            /\ m' = m + 1
            /\ last' = [month |-> m, outcome |-> "read_error"]
    /\ UNCHANGED <<pc, month_data, existing_months, ingested, totals_file, top_file, err, others>>

\* the month is read and recorded under its key
MonthIngested ==
    /\ pc = "loop" /\ m <= NumMonths
    /\ Len(existing_months) < MaxIngested
    /\ \E resp \in Responses :
         LET z == try_fetch_zip(resp)
             r == read_trips_from_zip(z.content)
             key == month_key(YEAR, m)
         IN /\ ~z.raised /\ ~z.none
            /\ r.ok
            /\ month_data' = (key :> r.df) @@ month_data
            /\ existing_months' = Append(existing_months, key)
            /\ ingested' = ingested \cup {m}
            /\ m' = m + 1
            /\ last' = [month |-> m, outcome |-> "ok"]
    /\ UNCHANGED <<pc, totals_file, top_file, err, others>>

\* raise RuntimeError("No 2025 monthly files found.")
NoMonthsFound ==
    /\ pc = "loop" /\ m = NumMonths + 1
    /\ existing_months = <<>>
    /\ pc' = "failed" /\ err' = "RuntimeError"
    /\ UNCHANGED <<m, month_data, existing_months, last, ingested, totals_file, top_file, others>>

\* the monthly totals are built and written
WriteTotals ==
    /\ pc = "loop" /\ m = NumMonths + 1
    /\ existing_months # <<>>
    /\ totals_file' = File(monthly_rows(existing_months, month_data))
    /\ pc' = "top"
    /\ UNCHANGED <<m, month_data, existing_months, last, ingested, top_file, err, others>>

\* open() or json.dump raises while writing the monthly totals
WriteTotalsFails ==
    /\ pc = "loop" /\ m = NumMonths + 1
    /\ existing_months # <<>>
    /\ pc' = "failed" /\ err' = "OSError:totals"
    /\ UNCHANGED <<m, month_data, existing_months, last, ingested, totals_file, top_file, others>>

\* a groupby on a column the latest month does not have
TopKeyError ==
    /\ pc = "top"
    /\ ~top_stations(existing_months, month_data).ok
    /\ pc' = "failed" /\ err' = top_stations(existing_months, month_data).exc
    /\ UNCHANGED <<m, month_data, existing_months, last, ingested, totals_file, top_file, others>>

\* the report is built and written
WriteTop ==
    /\ pc = "top"
    /\ top_stations(existing_months, month_data).ok
    /\ top_file' = File(top_stations(existing_months, month_data).result)
    /\ pc' = "done"
    /\ UNCHANGED <<m, month_data, existing_months, last, ingested, totals_file, err, others>>

\* open() or json.dump raises while writing the report
WriteTopFails ==
    /\ pc = "top"
    /\ top_stations(existing_months, month_data).ok
    /\ pc' = "failed" /\ err' = "OSError:top"
    /\ UNCHANGED <<m, month_data, existing_months, last, ingested, totals_file, top_file, others>>

Next ==
    \/ MakeDirs \/ MakeDirsFails
    \/ FetchRaises \/ MonthNotFound \/ MonthUnreadable \/ MonthIngested
    \/ NoMonthsFound \/ WriteTotals \/ WriteTotalsFails
    \/ TopKeyError \/ WriteTop \/ WriteTopFails

Spec == Init /\ [][Next]_vars

(* ---------------- read_trips_from_zip on drawn archives ---------------- *)
\* the columns of a drawn table: any non-empty choice of these, so also
\* usertype alone, which is a table without a recognised column
DrawnCols == {"started_at", "member_casual", "usertype", "start_station_id"}

CellValues(c) ==
    CASE c = "started_at"    -> {T2025a, T2024, TJunk, NaN}
      [] c = "member_casual" -> {"member", "Casual", NaN}
      [] c = "usertype"      -> {"Subscriber", "Customer", "Dependent"}
      [] OTHER               -> {"HB101"}

RowsOver(cs) ==
    {[c \in cs |-> CASE c = "started_at"    -> st
                     [] c = "member_casual" -> mc
                     [] c = "usertype"      -> ut
                     [] OTHER               -> sid] :
        st \in CellValues("started_at"), mc \in CellValues("member_casual"),
        ut \in CellValues("usertype"), sid \in CellValues("start_station_id")}

EmptyTables ==
    {[cols |-> cs, rows |-> <<>>] : cs \in (SUBSET DrawnCols) \ {{}}}

Drawn(z) ==
    /\ ~z.bad /\ csv_names(z) # <<>>
    /\ csv_names(z)[1].table.cols # {}
    /\ csv_names(z)[1].table.cols \subseteq DrawnCols

\* the archive is one of the fixed ones or a header over the drawn columns
InitNormalize ==
    /\ nz_pc = "input" /\ nz_in \in Zips \cup {ZipOf(t) : t \in EmptyTables}
    /\ nz_out = [ok |-> FALSE, exc |-> "none"]
    /\ IdleRun /\ IdleTop5

\* one more row in the drawn archive's table
AddRow ==
    /\ nz_pc = "input" /\ Drawn(nz_in)
    /\ LET t == csv_names(nz_in)[1].table
       IN /\ Len(t.rows) < MaxRows
          /\ \E r \in RowsOver(t.cols) :
                nz_in' = ZipOf([cols |-> t.cols, rows |-> Append(t.rows, r)])
    /\ UNCHANGED <<pc, m, month_data, existing_months, last, ingested,
                   totals_file, top_file, err, nz_pc, nz_out, t5_pc, t5_in, t5_out>>

Normalize ==
    /\ nz_pc = "input"
    /\ nz_out' = read_trips_from_zip(nz_in)
    /\ nz_pc' = "done"
    /\ UNCHANGED <<pc, m, month_data, existing_months, last, ingested,
                   totals_file, top_file, err, nz_in, t5_pc, t5_in, t5_out>>

NextNormalize == AddRow \/ Normalize

SpecNormalize == InitNormalize /\ [][NextNormalize]_vars

(* ---------------- top5 on drawn grouped counts ---------------- *)
StationIds == <<"HB101", "HB102", "HB103", "JC009", "JC013", "JC014", "JC018",
                "JC020", "JC022", "JC024">>

\* the i-th group in groupby order; one without a name, or without id and
\* name, sorts last
Group(i, trips, tail) ==
    [station_id   |-> IF tail = "nan_pair" THEN NaN ELSE StationIds[i],
     station_name |-> IF tail # "named" THEN NaN ELSE "Grove St PATH",
     trips        |-> trips]

InitTop5 ==
    /\ t5_pc = "input" /\ t5_in = <<>> /\ t5_out = <<>>
    /\ IdleRun /\ IdleNormalize

\* one more group in the grouped counts
AddGroup ==
    /\ t5_pc = "input"
    /\ Len(t5_in) < MaxGroups
    /\ t5_in # <<>> => t5_in[Len(t5_in)].station_name # NaN
    /\ \E trips \in 1..MaxTrips, tail \in {"named", "nan_pair", "nan_name"} :
          t5_in' = Append(t5_in, Group(Len(t5_in) + 1, trips, tail))
    /\ UNCHANGED <<pc, m, month_data, existing_months, last, ingested,
                   totals_file, top_file, err, nz_pc, nz_in, nz_out, t5_pc, t5_out>>

Rank ==
    /\ t5_pc = "input"
    /\ t5_out' = top5(t5_in)
    /\ t5_pc' = "done"
    /\ UNCHANGED <<pc, m, month_data, existing_months, last, ingested,
                   totals_file, top_file, err, nz_pc, nz_in, nz_out, t5_in>>

NextTop5 == AddGroup \/ Rank

SpecTop5 == InitTop5 /\ [][NextTop5]_vars

(* ======================= properties ======================= *)
RunOver == pc \in {"done", "failed"}

RECURSIVE Ascending(_)
Ascending(S) ==
    IF S = {} THEN <<>>
    ELSE LET mn == CHOOSE x \in S : \A y \in S : x <= y
         IN <<mn>> \o Ascending(S \ {mn})

Largest(S) == CHOOSE x \in S : \A y \in S : y <= x

RECURSIVE SumTrips(_)
SumTrips(tbl) == IF tbl = <<>> THEN 0 ELSE Head(tbl).trips + SumTrips(Tail(tbl))

Min2(a, b) == IF a < b THEN a ELSE b

\* the table of the first CSV member of an archive
FirstCsv(z) == csv_names(z)[1].table

\* C1: a month whose fetch ends in a transport failure is treated as Absent:
\* the failure is not propagated, the month gets no entry and the loop goes
\* on with the next month.
C1_TransportFailureAbsorbed ==
    last.outcome = "raise" =>
        /\ pc # "failed"
        /\ m = last.month + 1
        /\ month_key(YEAR, last.month) \notin DOMAIN month_data

\* C2: the run terminates abnormally if and only if no month was ingested:
\* with at least one month ingested nothing makes it fail, and with none it
\* fails with the no-data error (stated on the runs in which the output
\* directory was created, no fetch raised and no write failed).
C2_FailsOnlyWithNoMonths ==
    /\ (pc = "failed" /\ last.outcome # "raise" /\ err \notin {"OSError:makedirs", "OSError:totals", "OSError:top"})
          => (ingested = {} /\ err = "RuntimeError")
    /\ pc \in {"top", "done"} => ingested # {}

\* C3: the two output writes are independent: when the write of one artifact
\* fails, the other artifact is still written.
C3_WritesIndependent ==
    /\ err = "OSError:totals" => top_file.written
    /\ err = "OSError:top" => totals_file.written

\* C4: a month that is Absent or whose archive cannot be read gets no entry
\* and the loop continues with the next month; the loop, once entered, always
\* attempts all 12 months in ascending order.
C4_SkipAndFullSweep ==
    /\ last.outcome \in {"not_found", "read_error"} =>
          /\ month_key(YEAR, last.month) \notin DOMAIN month_data
          /\ m = last.month + 1
    /\ (pc = "loop" /\ last.month > 0) => m = last.month + 1
    /\ (pc \notin {"start", "loop"} /\ err # "OSError:makedirs") => m = NumMonths + 1

\* C5: the written monthly totals have exactly one entry per ingested month,
\* in strictly ascending "YYYY-MM" order, and each entry's rides is the row
\* count of that month's normalized trip set, zero included.
C5_MonthlyTotals ==
    totals_file.written =>
        LET v == totals_file.value
            months == Ascending(ingested)
        IN /\ Len(v) = Cardinality(ingested)
           /\ \A i \in 1..Len(v) :
                 /\ v[i].month = month_key(YEAR, months[i])
                 /\ Len(v[i].month) = 7
                 /\ v[i].rides = Len(month_data[month_key(YEAR, months[i])].rows)
           /\ \A i, j \in 1..Len(v) : i < j => StrLess(v[i].month, v[j].month)

C5_Witness ==
    /\ pc = "done"
    /\ Len(totals_file.value) = 2
    /\ Cardinality(ingested) = 2
    /\ last.outcome \in {"not_found", "read_error"}
    /\ \E i \in 1..2 : totals_file.value[i].rides = 0
    /\ \E i \in 1..2 : totals_file.value[i].rides = 4

\* the rider type under which run() files a row
RiderOf(r) == IF r["member_casual"] = NaN THEN "unknown" ELSE Lower(r["member_casual"])

\* the rows of df that a leaderboard entry counts
RowsOfEntry(df, idcol, namecol, cat, e) ==
    {i \in 1..Len(df.rows) :
        /\ RiderOf(df.rows[i]) = cat
        /\ (IF df.rows[i][idcol] = NaN THEN "Unknown" ELSE df.rows[i][idcol]) = e.station_id
        /\ (IF df.rows[i][namecol] = NaN THEN "Unknown" ELSE df.rows[i][namecol]) = e.station_name}

TableFrom(df, idcol, namecol, cat, tbl) ==
    \A i \in 1..Len(tbl) :
        tbl[i].trips = Cardinality(RowsOfEntry(df, idcol, namecol, cat, tbl[i]))

\* C6: latest_month of the written report is the greatest key of the ingested
\* months, equal to the last entry of the monthly totals, and the four
\* tables count rows of that month's trip set only; with months 1 and 3
\* ingested it is "2025-03".
C6_LatestMonth ==
    top_file.written =>
        LET rep == top_file.value
            key == month_key(YEAR, Largest(ingested))
            df  == month_data[key]
        IN /\ rep.latest_month = key
           /\ totals_file.written
           /\ rep.latest_month = totals_file.value[Len(totals_file.value)].month
           /\ \A k \in DOMAIN month_data : k = key \/ StrLess(k, rep.latest_month)
           /\ ingested = {1, 3} => rep.latest_month = <<50, 48, 50, 53, 45, 48, 51>>
           /\ TableFrom(df, "start_station_id", "start_station_name", "casual", rep.top5.starts.casual)
           /\ TableFrom(df, "start_station_id", "start_station_name", "member", rep.top5.starts.member)
           /\ TableFrom(df, "end_station_id", "end_station_name", "casual", rep.top5.ends.casual)
           /\ TableFrom(df, "end_station_id", "end_station_name", "member", rep.top5.ends.member)

C6_Witness ==
    /\ top_file.written
    /\ ingested = {1, 3}
    /\ top_file.value.latest_month = <<50, 48, 50, 53, 45, 48, 51>>
    /\ month_data[month_key(YEAR, 1)] # month_data[month_key(YEAR, 3)]
    /\ Len(top_file.value.top5.starts.casual) = 1
    /\ top_file.value.top5.starts.casual[1].trips = 2
    /\ Len(top_file.value.top5.starts.member) = 1

\* an output entry is the input group, its missing id or name spelled "Unknown"
IsGroup(e, g) ==
    /\ e.trips = g.trips
    /\ e.station_id = (IF g.station_id = NaN THEN "Unknown" ELSE g.station_id)
    /\ e.station_name = (IF g.station_name = NaN THEN "Unknown" ELSE g.station_name)

\* C7: top5 returns min(5, number of groups) entries in non-increasing order
\* of trips, each a distinct group of the input, so their trips sum to no
\* more than the input's; a missing id or name is "Unknown", never null.
C7_Top5 ==
    t5_pc = "done" =>
        /\ Len(t5_out) = Min2(5, Len(t5_in))
        /\ \A i, j \in 1..Len(t5_out) : i < j => t5_out[i].trips >= t5_out[j].trips
        /\ \A i \in 1..Len(t5_out) : \E j \in 1..Len(t5_in) : IsGroup(t5_out[i], t5_in[j])
        /\ \A i, j \in 1..Len(t5_out) :
              i # j => <<t5_out[i].station_id, t5_out[i].station_name>>
                       # <<t5_out[j].station_id, t5_out[j].station_name>>
        /\ SumTrips(t5_out) <= SumTrips(t5_in)
        /\ \A i \in 1..Len(t5_out) : t5_out[i].station_id # NaN /\ t5_out[i].station_name # NaN

C7_Witness ==
    /\ t5_pc = "done"
    /\ Len(t5_in) = 6 /\ Len(t5_out) = 5
    /\ t5_in[6].station_id = NaN /\ t5_in[6].trips = 3 /\ t5_in[1].trips = 1
    /\ t5_out[1].station_id = "Unknown" /\ t5_out[1].station_name = "Unknown"
    /\ t5_out[5].trips < t5_out[1].trips
    /\ SumTrips(t5_out) < SumTrips(t5_in)

\* C8: every row returned by the normalizer has a rider category that is
\* present and is one of "member", "casual", "unknown".
C8_RiderCategoryPresent ==
    (nz_pc = "done" /\ nz_out.ok) =>
        \A i \in 1..Len(nz_out.df.rows) :
            nz_out.df.rows[i]["member_casual"] \in {"member", "casual", "unknown"}

\* a row of the source table that parses to the target year
InTargetYear(r) == r["started_at"] \in {T2025a, T2025b}
\* a row of the source table whose start time is missing or does not parse
NoStart(r) == r["started_at"] \in {NaN, TJunk}

\* C9 as stated: a row is dropped only when its start time is present and
\* outside the target year; rows without a start time are kept and counted
\* (stated on the tables that have a started_at column).
C9_KeepsRowsWithoutStart ==
    (nz_pc = "done" /\ nz_out.ok /\ "started_at" \in FirstCsv(nz_in).cols) =>
        LET t == FirstCsv(nz_in)
        IN Len(nz_out.df.rows) =
              Cardinality({i \in 1..Len(t.rows) : InTargetYear(t.rows[i]) \/ NoStart(t.rows[i])})

\* C9 amended: with a started_at column the normalizer keeps exactly the rows
\* whose start time parses to the target year, so a row whose start time is
\* missing or unparsable is dropped; without that column every row is kept
\* when the table has some recognised column, and no row when it has none.
C9_KeepsExactlyTargetYear ==
    (nz_pc = "done" /\ nz_out.ok) =>
        LET t == FirstCsv(nz_in)
            out == nz_out.df.rows
        IN IF "started_at" \in t.cols
           THEN /\ Len(out) = Cardinality({i \in 1..Len(t.rows) : InTargetYear(t.rows[i])})
                /\ \A i \in 1..Len(out) :
                      ~out[i]["started_at"].nat /\ out[i]["started_at"].year = YEAR
           ELSE IF t.cols \cap usecols # {}
           THEN Len(out) = Len(t.rows)
           ELSE Len(out) = 0

C9_Witness ==
    /\ nz_pc = "done" /\ nz_out.ok
    /\ "started_at" \in FirstCsv(nz_in).cols
    /\ Len(FirstCsv(nz_in).rows) = 2
    /\ FirstCsv(nz_in).rows[1]["started_at"] = NaN
    /\ FirstCsv(nz_in).rows[2]["started_at"] = T2025a
    /\ Len(nz_out.df.rows) = 1

\* the rider category the priority rule gives a source row
ExpectedRider(t, r) ==
    IF "member_casual" \in t.cols THEN {str_lower(r["member_casual"]), "unknown"}
    ELSE IF "usertype" \in t.cols
    THEN {CASE Lower(r["usertype"]) = "subscriber" -> "member"
            [] Lower(r["usertype"]) = "customer"   -> "casual"
            [] OTHER                               -> "unknown"}
    ELSE {"unknown"}

\* C10: the rider category is the lowercased member_casual when the table has
\* that column, else the mapped usertype when it has that one, and "unknown"
\* only when it has neither (stated on the archives none of whose rows is
\* dropped, where output row i is source row i).
C10_RiderCategoryPriority ==
    (nz_pc = "done" /\ nz_out.ok /\ Len(nz_out.df.rows) = Len(FirstCsv(nz_in).rows)) =>
        LET t == FirstCsv(nz_in)
        IN \A i \in 1..Len(t.rows) :
              nz_out.df.rows[i]["member_casual"] \in ExpectedRider(t, t.rows[i])

====
